---- MODULE Spec2Model ----
(***************************************************************************)
(* State-machine model of rs_lisp: the Lexer (src/src/lexer.rs), the       *)
(* recursive-descent Parser (src/src/parser.rs) and the run() pipeline of  *)
(* src/src/main.rs that scans a program and hands the tokens to the parser.*)
(*                                                                         *)
(* A source string is a sequence of characters (one-character strings),    *)
(* indexed by character as String::chars().nth() does; String::len() is    *)
(* the UTF-8 byte length, so every character carries its encoded width.    *)
(* Offsets (start, current, cursor) are 0-based as in the code.            *)
(***************************************************************************)
EXTENDS Integers, Sequences, FiniteSets, TLC

VARIABLES source, tokens, start, current, line, lpc, scanErr,
          ptokens, cursor, stack, result, ppc, consumed

lexvars == <<source, tokens, start, current, line, lpc, scanErr>>
parvars == <<ptokens, cursor, stack, result, ppc, consumed>>
vars == <<source, tokens, start, current, line, lpc, scanErr,
          ptokens, cursor, stack, result, ppc, consumed>>

\* ------------------------------------------------------------------ bounds
\* Longest source string handed to run().
MaxLen == 3
\* Longest token sequence (before the End token) handed to Parser::init.
MaxToks == 7

\* -------------------------------------------------------------- characters
LF == "\n"
DQ == "\""
\* A letter outside ASCII (U+00E9), two bytes in UTF-8.
EAcute == "U+00E9"
\* unwrap_or('\0') of peek / peek_next.
NUL == "U+0000"
\* Option::None of chars().nth().
None == "None"

Digits == {"0", "1", "2", "3", "4", "5", "6", "7", "8", "9"}

\* The characters the source strings are drawn from: one or more for every
\* arm of scan_token's match.
Alphabet == {"(", ")", "'", ",", DQ, ";", "3", ".", " ", LF, "a", EAcute}

Utf8Len(c) == IF c = EAcute THEN 2 ELSE 1

RECURSIVE ByteLen(_)
ByteLen(s) == IF s = <<>> THEN 0 ELSE Utf8Len(Head(s)) + ByteLen(Tail(s))

is_ascii_digit(c) == c \in Digits

Min(a, b) == IF a < b THEN a ELSE b

\* ------------------------------------------------------------------ tokens
Tok(k, v) == [kind |-> k, val |-> v]
OpenParen == Tok("OpenParen", <<>>)
CloseParen == Tok("CloseParen", <<>>)
Quote == Tok("Quote", <<>>)
Comma == Tok("Comma", <<>>)
End == Tok("End", <<>>)
SymbolTok(text) == Tok("Symbol", text)
StringTok(text) == Tok("String", text)
NumberTok(v) == Tok("Number", v)

ParsingError(msg, ln) == [msg |-> msg, line |-> ln]
NoError == ParsingError("", 0)
GenericError == ParsingError("Geniric error while parsing", 0)
StringError(ln) == ParsingError("Error while parsing a string", ln)
NumberError(ln) == ParsingError("Error while parsing a number", ln)

\* ------------------------------------------------------------ Lexer helpers
\* self.source.chars().nth(i)
CharAt(src, i) == IF i < Len(src) THEN src[i + 1] ELSE None

is_end(src, cur) == cur >= ByteLen(src)

peek(src, cur) == IF CharAt(src, cur) = None THEN NUL ELSE CharAt(src, cur)

peek_next(src, cur) ==
    IF CharAt(src, cur + 1) = None THEN NUL ELSE CharAt(src, cur + 1)

\* self.source.chars().skip(st).take(cur - st).collect()
Lexeme(src, st, cur) == SubSeq(src, st + 1, Min(cur, Len(src)))

\* The characters that end scan_symbol's loop.
SymbolStop == {" ", "(", ")", LF}

RECURSIVE scan_symbol(_, _, _)
scan_symbol(src, cur, ln) ==
    IF (peek(src, cur) \notin SymbolStop) /\ ~is_end(src, cur)
    THEN scan_symbol(src, cur + 1, IF peek(src, cur) = LF THEN ln + 1 ELSE ln)
    ELSE [current |-> cur, line |-> ln]

RECURSIVE DigitRun(_, _)
DigitRun(src, cur) ==
    IF is_ascii_digit(peek(src, cur)) THEN DigitRun(src, cur + 1) ELSE cur

\* A scan_number that takes the '.' without looking at what follows it.
HasFractionNoLookahead(src, cur) == peek(src, cur) = "."

HasFraction(src, cur) ==
    (peek(src, cur) = ".") /\ is_ascii_digit(peek_next(src, cur))

\* The cursor where scan_number stops.
NumberEnd(src, cur) ==
    LET c1 == DigitRun(src, cur)
    IN  IF HasFraction(src, c1) THEN DigitRun(src, c1 + 1) ELSE c1

DigitVal(c) ==
    CASE c = "0" -> 0 [] c = "1" -> 1 [] c = "2" -> 2 [] c = "3" -> 3
      [] c = "4" -> 4 [] c = "5" -> 5 [] c = "6" -> 6 [] c = "7" -> 7
      [] c = "8" -> 8 [] c = "9" -> 9

RECURSIVE DigitsToNat(_)
DigitsToNat(ds) ==
    IF ds = <<>> THEN 0
    ELSE 10 * DigitsToNat(SubSeq(ds, 1, Len(ds) - 1)) + DigitVal(ds[Len(ds)])

RECURSIVE Normalise(_, _)
Normalise(mant, scale) ==
    IF scale > 0 /\ mant % 10 = 0 THEN Normalise(mant \div 10, scale - 1)
    ELSE <<mant, scale>>

\* str::parse::<f64>() on a string of digits and dots: digits, optionally a
\* '.', digits, one digit or more in all.  The value is the decimal
\* mant / 10^scale in lowest terms of ten (3.10 = 3.1, 03 = 3), which f64
\* tells apart as long as the text has at most 15 significant digits.
ParseF64(text) ==
    LET dots == {i \in 1..Len(text) : text[i] = "."}
        digs == {i \in 1..Len(text) : text[i] \in Digits}
    IN  IF Cardinality(dots) > 1 \/ digs = {}
           \/ Cardinality(dots) + Cardinality(digs) # Len(text)
        THEN [ok |-> FALSE, val |-> <<>>]
        ELSE LET d == IF dots = {} THEN Len(text) + 1 ELSE CHOOSE i \in dots : TRUE
                 ip == SubSeq(text, 1, d - 1)
                 fp == SubSeq(text, d + 1, Len(text))
             IN  [ok |-> TRUE, val |-> Normalise(DigitsToNat(ip \o fp), Len(fp))]

\* A scan_string that forgets the newlines inside the literal.
CountsLineNever(c) == FALSE

\* scan_string's test for incrementing line.
CountsLine(c) == c = LF

RECURSIVE scan_string(_, _, _)
scan_string(src, cur, ln) ==
    IF (peek(src, cur) # DQ) /\ ~is_end(src, cur)
    THEN scan_string(src, cur + 1, IF CountsLine(peek(src, cur)) THEN ln + 1 ELSE ln)
    ELSE [current |-> cur, line |-> ln]

\* A skip_comment that also consumes the newline ending the comment.
RECURSIVE skip_comment_and_newline(_, _)
skip_comment_and_newline(src, cur) ==
    IF (peek(src, cur) # LF) /\ ~is_end(src, cur)
    THEN skip_comment_and_newline(src, cur + 1)
    ELSE IF is_end(src, cur) THEN cur ELSE cur + 1

RECURSIVE skip_comment(_, _)
skip_comment(src, cur) ==
    IF (peek(src, cur) # LF) /\ ~is_end(src, cur)
    THEN skip_comment(src, cur + 1)
    ELSE cur

\* ------------------------------------------------------------------- Init
RECURSIVE SeqsUpTo(_, _)
SeqsUpTo(S, n) ==
    IF n = 0 THEN {<<>>}
    ELSE LET P == SeqsUpTo(S, n - 1)
         IN  P \cup {Append(s, x) : s \in {p \in P : Len(p) = n - 1}, x \in S}

\* Parser state before Parser::init.
NoParser ==
    /\ ptokens = <<>>
    /\ cursor = 0
    /\ stack = <<>>
    /\ result = [ok |-> TRUE, val |-> <<>>]
    /\ ppc = "none"
    /\ consumed = <<>>

\* run(): Lexer::init(program), about to enter scan's loop.
Init ==
    /\ source \in SeqsUpTo(Alphabet, MaxLen)
    /\ tokens = <<>>
    /\ start = 0
    /\ current = 0
    /\ line = 1
    /\ lpc = "scanning"
    /\ scanErr = NoError
    /\ NoParser

\* ------------------------------------------------------ Lexer::scan rounds
\* One iteration of scan's while loop whose advance() yields character c:
\* start is set to current, and advance moves current past c.
Round(c) ==
    /\ lpc = "scanning"
    /\ ~is_end(source, current)
    /\ CharAt(source, current) = c
    /\ start' = current

PunctTok(c) ==
    CASE c = "(" -> OpenParen
      [] c = ")" -> CloseParen
      [] c = "'" -> Quote
      [] c = "," -> Comma

ScanPunct ==
    \E c \in {"(", ")", "'", ","} :
        /\ Round(c)
        /\ tokens' = Append(tokens, PunctTok(c))
        /\ current' = current + 1
        /\ UNCHANGED <<source, line, lpc, scanErr>>
        /\ UNCHANGED parvars

ScanString ==
    /\ Round(DQ)
    /\ LET r == scan_string(source, current + 1, line)
       IN  IF is_end(source, r.current)
           THEN /\ lpc' = "err"
                /\ scanErr' = StringError(r.line)
                /\ current' = r.current
                /\ line' = r.line
                /\ UNCHANGED tokens
           ELSE /\ current' = r.current + 1
                /\ line' = r.line
                /\ tokens' = Append(tokens,
                                 StringTok(Lexeme(source, current, r.current + 1)))
                /\ UNCHANGED <<lpc, scanErr>>
    /\ UNCHANGED source
    /\ UNCHANGED parvars

ScanComment ==
    /\ Round(";")
    /\ current' = skip_comment(source, current + 1)
    /\ UNCHANGED <<source, tokens, line, lpc, scanErr>>
    /\ UNCHANGED parvars

ScanNumber ==
    \E c \in Digits :
        /\ Round(c)
        /\ LET e == NumberEnd(source, current + 1)
               n == ParseF64(Lexeme(source, current, e))
           IN  /\ current' = e
               /\ IF n.ok
                  THEN /\ tokens' = Append(tokens, NumberTok(n.val))
                       /\ UNCHANGED <<lpc, scanErr>>
                  ELSE /\ lpc' = "err"
                       /\ scanErr' = NumberError(line)
                       /\ UNCHANGED tokens
        /\ UNCHANGED <<source, line>>
        /\ UNCHANGED parvars

ScanBlank ==
    \E c \in {" ", "\t", "\r"} :
        /\ Round(c)
        /\ current' = current + 1
        /\ UNCHANGED <<source, tokens, line, lpc, scanErr>>
        /\ UNCHANGED parvars

ScanNewline ==
    /\ Round(LF)
    /\ current' = current + 1
    /\ line' = line + 1
    /\ UNCHANGED <<source, tokens, lpc, scanErr>>
    /\ UNCHANGED parvars

\* The characters with an arm of their own in scan_token's match.
Dispatched == {"(", ")", "'", ",", DQ, ";", " ", "\t", "\r", LF} \cup Digits

ScanSymbol ==
    \E c \in Alphabet \ Dispatched :
        /\ Round(c)
        /\ LET r == scan_symbol(source, current + 1, line)
           IN  /\ current' = r.current
               /\ line' = r.line
               /\ tokens' = Append(tokens,
                                SymbolTok(Lexeme(source, current, r.current)))
        /\ UNCHANGED <<source, lpc, scanErr>>
        /\ UNCHANGED parvars

\* advance() returns None although is_end() is false.
ScanNoChar ==
    /\ Round(None)
    /\ current' = current + 1
    /\ lpc' = "err"
    /\ scanErr' = GenericError
    /\ UNCHANGED <<source, tokens, line>>
    /\ UNCHANGED parvars

\* scan's loop ends: push End and return Ok.
ScanEnd ==
    /\ lpc = "scanning"
    /\ is_end(source, current)
    /\ tokens' = Append(tokens, End)
    /\ lpc' = "ok"
    /\ UNCHANGED <<source, start, current, line, scanErr>>
    /\ UNCHANGED parvars

LexNext ==
    \/ ScanPunct
    \/ ScanString
    \/ ScanComment
    \/ ScanNumber
    \/ ScanBlank
    \/ ScanNewline
    \/ ScanSymbol
    \/ ScanNoChar
    \/ ScanEnd

\* ------------------------------------------------------------ SExpression
Number(v) == [kind |-> "Number", val |-> v]
Str(s) == [kind |-> "Str", val |-> s]
Symbol(s) == [kind |-> "Symbol", val |-> s]
List(items) == [kind |-> "List", val |-> items]

Ok(v) == [ok |-> TRUE, val |-> v]
Err(e) == [ok |-> FALSE, val |-> e]

UnmatchedClose == ParsingError("closing parent without opening it", 0)
\* format!("{:?}", token) of a token without payload is the variant's name.
MalformedAtom(tok) == ParsingError(tok.kind, 0)

\* ----------------------------------------------------------- Parser helpers
\* The cursor after parse_expression's unconditional advance.
PostAdvance(c) == c + 1

\* A parse_list that stops at End only.
IsListEndOnlyEnd(tok) == tok = End

\* parse_list's test that ends the list.
IsListEnd(tok) == tok = CloseParen \/ tok = End

\* A parse_list that consumes the CloseParen itself before returning.
ListEndCursorConsumes(c, tok) == IF tok = CloseParen THEN c + 1 ELSE c

\* The cursor parse_list returns with: still on the token that ended the list.
ListEndCursor(c, tok) == c

parse_atom(tok) ==
    CASE tok.kind = "String" -> Ok(Str(tok.val))
      [] tok.kind = "Symbol" -> Ok(Symbol(tok.val))
      [] tok.kind = "Number" -> Ok(Number(tok.val))
      [] OTHER -> Err(MalformedAtom(tok))

\* A call of parse_expression (pc "match": about to read tokens[cursor];
\* pc "post": res is set or awaited from parse_list, the advance is next)
\* or of parse_list (items is its local res vector).  at is the cursor the
\* call started from.
Frame(fn, pc, at) ==
    [fn |-> fn, pc |-> pc, at |-> at, res |-> Ok(<<>>), items |-> <<>>]

Top == stack[Len(stack)]
Pop(st) == SubSeq(st, 1, Len(st) - 1)
SetTop(st, f) == [st EXCEPT ![Len(st)] = f]

Running == ppc = "running" /\ stack # <<>>
AtMatch == Running /\ Top.fn = "parse_expression" /\ Top.pc = "match"
AtPost == Running /\ Top.fn = "parse_expression" /\ Top.pc = "post"
AtLoop == Running /\ Top.fn = "parse_list"

\* self.tokens[self.cursor]
InBounds == cursor < Len(ptokens)
Cur == ptokens[cursor + 1]

Advanced(by, call) == Append(consumed, [idx |-> cursor, by |-> by, call |-> call])

\* --------------------------------------------------------- run() hand-over
\* run(): whatever scan returned, scanner.tokens goes to Parser::init and
\* parse() is called.
RunParser ==
    /\ lpc \in {"ok", "err"}
    /\ ppc = "none"
    /\ ptokens' = tokens
    /\ cursor' = 0
    /\ stack' = <<Frame("parse_expression", "match", 0)>>
    /\ ppc' = "running"
    /\ UNCHANGED <<result, consumed>>
    /\ UNCHANGED lexvars

\* ----------------------------------------------------------- Parser steps
\* tokens[cursor] with cursor >= tokens.len(): the index panics.
IndexPanic ==
    /\ AtMatch \/ AtLoop
    /\ ~InBounds
    /\ ppc' = "panic"
    /\ UNCHANGED <<ptokens, cursor, stack, result, consumed>>
    /\ UNCHANGED lexvars

\* parse_expression on OpenParen: parse_list is entered and consumes it.
ExprList ==
    /\ AtMatch /\ InBounds
    /\ Cur = OpenParen
    /\ stack' = Append(SetTop(stack, [Top EXCEPT !.pc = "post", !.at = cursor]),
                       Frame("parse_list", "loop", cursor))
    /\ cursor' = cursor + 1
    /\ consumed' = Advanced("open", cursor)
    /\ UNCHANGED <<ptokens, result, ppc>>
    /\ UNCHANGED lexvars

\* parse_expression on CloseParen.
ExprCloseParen ==
    /\ AtMatch /\ InBounds
    /\ Cur = CloseParen
    /\ stack' = SetTop(stack, [Top EXCEPT !.pc = "post", !.at = cursor,
                                          !.res = Err(UnmatchedClose)])
    /\ UNCHANGED <<ptokens, cursor, result, ppc, consumed>>
    /\ UNCHANGED lexvars

\* parse_expression on anything else: parse_atom.
ExprAtom ==
    /\ AtMatch /\ InBounds
    /\ Cur # OpenParen /\ Cur # CloseParen
    /\ stack' = SetTop(stack, [Top EXCEPT !.pc = "post", !.at = cursor,
                                          !.res = parse_atom(Cur)])
    /\ UNCHANGED <<ptokens, cursor, result, ppc, consumed>>
    /\ UNCHANGED lexvars

\* parse_list's loop meets the end of the list: Ok(List(res)) goes to the
\* parse_expression that called it.
ListReturn ==
    /\ AtLoop /\ InBounds
    /\ IsListEnd(Cur)
    /\ LET below == Pop(stack)
       IN  stack' = SetTop(below, [below[Len(below)] EXCEPT
                                      !.res = Ok(List(Top.items))])
    /\ cursor' = ListEndCursor(cursor, Cur)
    /\ UNCHANGED <<ptokens, result, ppc, consumed>>
    /\ UNCHANGED lexvars

\* parse_list's loop calls parse_expression.
ListCall ==
    /\ AtLoop /\ InBounds
    /\ ~IsListEnd(Cur)
    /\ stack' = Append(stack, Frame("parse_expression", "match", cursor))
    /\ UNCHANGED <<ptokens, cursor, result, ppc, consumed>>
    /\ UNCHANGED lexvars

\* parse_expression advances and returns to parse().
ExprReturnTop ==
    /\ AtPost
    /\ Len(stack) = 1
    /\ cursor' = PostAdvance(cursor)
    /\ consumed' = Advanced("post", Top.at)
    /\ result' = Top.res
    /\ stack' = <<>>
    /\ ppc' = "done"
    /\ UNCHANGED ptokens
    /\ UNCHANGED lexvars

\* parse_expression advances and returns Ok to parse_list, which pushes it.
ExprReturnPush ==
    /\ AtPost
    /\ Len(stack) > 1
    /\ Top.res.ok
    /\ cursor' = PostAdvance(cursor)
    /\ consumed' = Advanced("post", Top.at)
    /\ LET below == Pop(stack)
           pl == below[Len(below)]
       IN  stack' = SetTop(below, [pl EXCEPT !.items = Append(pl.items, Top.res.val)])
    /\ UNCHANGED <<ptokens, result, ppc>>
    /\ UNCHANGED lexvars

\* parse_expression advances and returns Err to parse_list, whose `?`
\* returns it to the parse_expression below.
ExprReturnErr ==
    /\ AtPost
    /\ Len(stack) > 1
    /\ ~Top.res.ok
    /\ cursor' = PostAdvance(cursor)
    /\ consumed' = Advanced("post", Top.at)
    /\ LET below == Pop(Pop(stack))
       IN  stack' = SetTop(below, [below[Len(below)] EXCEPT !.res = Top.res])
    /\ UNCHANGED <<ptokens, result, ppc>>
    /\ UNCHANGED lexvars

ParseNext ==
    \/ IndexPanic
    \/ ExprList
    \/ ExprCloseParen
    \/ ExprAtom
    \/ ListReturn
    \/ ListCall
    \/ ExprReturnTop
    \/ ExprReturnPush
    \/ ExprReturnErr

Next == LexNext \/ RunParser \/ ParseNext

Spec == Init /\ [][Next]_vars

\* ------------------------------------------- the parser on its own input
\* The tokens the parser's inputs are drawn from.
TokAlphabet == {OpenParen, CloseParen, Comma, SymbolTok(<<"a">>)}

\* Parser::init(toks) and parse() on a token sequence as scan produces them:
\* no End inside, one End last.  No Lexer is involved.
InitParser ==
    /\ source = <<>>
    /\ tokens = <<>>
    /\ start = 0
    /\ current = 0
    /\ line = 1
    /\ lpc = "none"
    /\ scanErr = NoError
    /\ ptokens \in {Append(t, End) : t \in SeqsUpTo(TokAlphabet, MaxToks)}
    /\ cursor = 0
    /\ stack = <<Frame("parse_expression", "match", 0)>>
    /\ result = Ok(<<>>)
    /\ ppc = "running"
    /\ consumed = <<>>

SpecParser == InitParser /\ [][ParseNext]_vars

\* ======================================================================
\* Reference definitions for the properties (not taken from the parser).
\* ======================================================================
Body(toks) == SubSeq(toks, 1, Len(toks) - 1)

IsAtomTok(t) == t.kind \in {"Symbol", "String", "Number"}

\* Open lists after the first i tokens of body.
Depth(body, i) ==
    Cardinality({k \in 1..i : body[k] = OpenParen})
        - Cardinality({k \in 1..i : body[k] = CloseParen})

\* Parens and atoms that stay inside one expression up to the last token.
IsExprPrefix(body) ==
    /\ body # <<>>
    /\ \A k \in 1..Len(body) :
           /\ body[k] = OpenParen \/ body[k] = CloseParen \/ IsAtomTok(body[k])
           /\ Depth(body, k) >= 0
           /\ k < Len(body) => Depth(body, k) > 0

\* toks is one balanced expression followed by End.
IsExprTokens(toks) ==
    /\ toks # <<>>
    /\ toks[Len(toks)] = End
    /\ IsExprPrefix(Body(toks))
    /\ Depth(Body(toks), Len(toks) - 1) = 0

\* toks is an expression whose lists, one or more, are still open at End.
IsUnclosedTokens(toks) ==
    /\ toks # <<>>
    /\ toks[Len(toks)] = End
    /\ IsExprPrefix(Body(toks))
    /\ Depth(Body(toks), Len(toks) - 1) > 0

AtomExpr(t) == [kind |-> IF t.kind = "String" THEN "Str" ELSE t.kind, val |-> t.val]

\* Shift-reduce reading of body: st holds the children collected so far of
\* every open list, the outermost first.
RECURSIVE Shift(_, _, _)
Shift(body, i, st) ==
    IF i > Len(body) THEN st
    ELSE LET t == body[i]
             top == st[Len(st)]
         IN  IF t = OpenParen THEN Shift(body, i + 1, Append(st, <<>>))
             ELSE IF t = CloseParen
             THEN LET rest == SubSeq(st, 1, Len(st) - 1)
                  IN  Shift(body, i + 1,
                            [rest EXCEPT ![Len(rest)] = Append(@, List(top))])
             ELSE Shift(body, i + 1, [st EXCEPT ![Len(st)] = Append(@, AtomExpr(t))])

RECURSIVE CloseAll(_)
CloseAll(st) ==
    IF Len(st) = 1 THEN st
    ELSE LET rest == SubSeq(st, 1, Len(st) - 1)
         IN  CloseAll([rest EXCEPT ![Len(rest)] = Append(@, List(st[Len(st)]))])

\* The tree that mirrors the nesting of body, open lists closed at its end.
Mirror(body) == CloseAll(Shift(body, 1, << <<>> >>))[1][1]

\* The 0-based index of the OpenParen closed by the CloseParen at 0-based j.
MatchingOpen(body, j) ==
    CHOOSE i \in 0..j :
        /\ body[i + 1] = OpenParen
        /\ Depth(body, i) = Depth(body, j + 1)
        /\ \A k \in (i + 1)..j : Depth(body, k) > Depth(body, i)

MaxDepth(body) ==
    CHOOSE d \in 0..Len(body) :
        /\ \A k \in 0..Len(body) : Depth(body, k) <= d
        /\ \E k \in 0..Len(body) : Depth(body, k) = d

Returned == ppc \in {"done", "panic"}

\* ======================================================================
\* Properties
\* ======================================================================

\* C2: for a token sequence that is one balanced expression followed by
\* End, parse returns the tree mirroring the nesting with children in token
\* order, the cursor finishes on End, every token of the expression is
\* advanced over exactly once, and each CloseParen is advanced over by the
\* post-advance of the parse_expression call that opened its list.
C2_BalancedParse ==
    (Returned /\ IsExprTokens(ptokens)) =>
        LET body == Body(ptokens)
        IN  /\ ppc = "done"
            /\ result = Ok(Mirror(body))
            /\ cursor = Len(ptokens) - 1
            /\ Len(consumed) = Len(body)
            /\ \A i \in 0..(Len(body) - 1) :
                   \E k \in 1..Len(consumed) : consumed[k].idx = i
            /\ \A k \in 1..Len(consumed) :
                   body[consumed[k].idx + 1] = CloseParen =>
                       /\ consumed[k].by = "post"
                       /\ consumed[k].call = MatchingOpen(body, consumed[k].idx)

\* C2 witness: a parse of sibling lists nested in a list has returned.
C2_Witness ==
    /\ ppc = "done"
    /\ IsExprTokens(ptokens)
    /\ MaxDepth(Body(ptokens)) >= 2
    /\ Cardinality({k \in 1..Len(ptokens) : ptokens[k] = CloseParen}) >= 3
    /\ \E k \in 1..Len(ptokens) : IsAtomTok(ptokens[k])

\* C6: a token sequence that starts with CloseParen fails with the
\* unmatched-close-paren error; parse_list never hands a CloseParen to
\* parse_expression, so only the top-level call, at token 0, produces it.
C6_UnmatchedClose ==
    /\ (Returned /\ ptokens # <<>> /\ ptokens[1] = CloseParen) =>
           (ppc = "done" /\ result = Err(UnmatchedClose))
    /\ \A k \in 1..Len(stack) :
           /\ (k > 1 /\ stack[k].fn = "parse_expression") =>
                  ptokens[stack[k].at + 1] # CloseParen
           /\ stack[k].res = Err(UnmatchedClose) => (k = 1 /\ stack[k].at = 0)
    /\ result = Err(UnmatchedClose) => (ptokens[1] = CloseParen /\ Len(consumed) = 1)

\* C6 witness: parse has failed on a leading CloseParen that tokens follow.
C6_Witness ==
    /\ ppc = "done"
    /\ Len(ptokens) > 2
    /\ ptokens[1] = CloseParen
    /\ result = Err(UnmatchedClose)

\* ----------------------------------------------------------------------
\* Reference definitions for the scanner's properties.
\* ----------------------------------------------------------------------
\* scan's loop is about to dispatch on character c.
Reads(c) == lpc = "scanning" /\ ~is_end(source, current) /\ CharAt(source, current) = c

\* digit+ optionally followed by '.' digit+
IsNumberForm(t) ==
    \E k \in 1..Len(t) :
        /\ \A i \in 1..k : t[i] \in Digits
        /\ \/ k = Len(t)
           \/ /\ Len(t) >= k + 2
              /\ t[k + 1] = "."
              /\ \A i \in (k + 2)..Len(t) : t[i] \in Digits

\* The end of the longest text of that form that starts at 0-based p.
LongestNumberEnd(src, p) ==
    CHOOSE e \in (p + 1)..Len(src) :
        /\ IsNumberForm(SubSeq(src, p + 1, e))
        /\ \A f \in (e + 1)..Len(src) : ~IsNumberForm(SubSeq(src, p + 1, f))

Newlines(src, n) == Cardinality({i \in 1..Min(n, Len(src)) : src[i] = LF})

\* The 1-based positions of the '"' after the one at 0-based p.
LaterQuotes(src, p) == {q \in (p + 2)..Len(src) : src[q] = DQ}

FirstOf(S) == CHOOSE q \in S : \A r \in S : q <= r

Letters == {"a", EAcute}
Whitespace == {" ", "\t", "\r", LF}

SourceDepth(src, i) ==
    Cardinality({k \in 1..i : src[k] = "("}) - Cardinality({k \in 1..i : src[k] = ")"})

\* Only parentheses, digits, letters and whitespace, the parentheses balanced.
IsSimpleBalanced(src) ==
    /\ \A i \in 1..Len(src) : src[i] \in {"(", ")"} \cup Digits \cup Letters \cup Whitespace
    /\ \A i \in 1..Len(src) : SourceDepth(src, i) >= 0
    /\ SourceDepth(src, Len(src)) = 0

ScanReturned == lpc \in {"ok", "err"}

\* ----------------------------------------------------------------------
\* Scanner properties
\* ----------------------------------------------------------------------

\* C7, the round that reads a digit: the Number token's lexeme is the
\* longest digit+ ('.' digit+)? text at that position, so a '.' with no
\* digit after it is where the next round starts.
C7_DigitRound ==
    (\E c \in Digits : Reads(c)) =>
        LET e == LongestNumberEnd(source, current)
        IN  /\ start' = current
            /\ current' = e
            /\ lpc' = "scanning"
            /\ tokens' = Append(tokens,
                             NumberTok(ParseF64(SubSeq(source, current + 1, e)).val))

\* C7, the round that reads a '.': it starts a Symbol token.
C7_DotRound ==
    Reads(".") =>
        /\ start' = current
        /\ Len(tokens') = Len(tokens) + 1
        /\ tokens'[Len(tokens')].kind = "Symbol"
        /\ Head(tokens'[Len(tokens')].val) = "."

\* C7: a round that reads an ASCII digit emits a Number whose lexeme is the
\* longest digit+ ('.' digit+)? text there; a '.' not followed by a digit is
\* left to the next round, which starts a Symbol with it; "3." scans to
\* Number(3), Symbol("."), End.
C7_NumberLexeme ==
    /\ []((source = <<"3", ".">> /\ lpc = "ok") =>
              tokens = <<NumberTok(<<3, 0>>), SymbolTok(<<".">>), End>>)
    /\ [][C7_DigitRound /\ C7_DotRound]_vars

\* C7 witness: "3." has been scanned to Number(3), Symbol("."), End.
C7_Witness ==
    /\ source = <<"3", ".">>
    /\ lpc = "ok"
    /\ tokens = <<NumberTok(<<3, 0>>), SymbolTok(<<".">>), End>>

\* C8, the round that reads a '"'.
C8_QuoteRound ==
    Reads(DQ) =>
        IF LaterQuotes(source, current) = {}
        THEN /\ lpc' = "err"
             /\ scanErr' = StringError(1 + Newlines(source, Len(source)))
             /\ tokens' = tokens
        ELSE LET q == FirstOf(LaterQuotes(source, current))
             IN  /\ lpc' = "scanning"
                 /\ scanErr' = NoError
                 /\ current' = q
                 /\ tokens' = Append(tokens, StringTok(SubSeq(source, current + 1, q)))

\* C8: reading a '"' that no later '"' closes fails with the
\* unterminated-string error, whose line is 1 plus the newlines of the whole
\* source, pushes no String token and no End token follows; with a later
\* '"', one String token from the opening quote to the first following
\* quote, both included, is pushed.
C8_StringScan ==
    /\ [](lpc = "err" => \A i \in 1..Len(tokens) : tokens[i] # End)
    /\ [][C8_QuoteRound]_vars

\* C8 witness: an unterminated string with a newline in it has failed on
\* line 2, after a token was pushed.
C8_Witness ==
    /\ lpc = "err"
    /\ scanErr = StringError(2)
    /\ tokens # <<>>
    /\ \E i \in 1..Len(source) : source[i] = LF /\ \E j \in 1..(i - 1) : source[j] = DQ

\* C9, line after every round: 1 plus the newlines below current.
C9_LineIsNewlinesBelow == line = 1 + Newlines(source, current)

\* C9, rounds of skip_comment and scan_symbol: they count no newline.
C9_CommentSymbolRound ==
    (\E c \in {";"} \cup (Alphabet \ Dispatched) : Reads(c)) => line' = line

\* C9: after every scanning round line is 1 plus the number of newlines at
\* character positions below current, each newline counted once by the main
\* dispatch or inside a string, none by skip_comment or scan_symbol.
C9_LineCounter ==
    /\ []C9_LineIsNewlinesBelow
    /\ [][C9_CommentSymbolRound]_vars

\* C9 witness: a scan has ended on line 2 after a comment that the
\* source's only newline ends.
C9_Witness ==
    /\ lpc = "ok"
    /\ line = 2
    /\ Len(source) >= 3
    /\ source[1] = ";"
    /\ source[Len(source)] = LF
    /\ source[2] # LF

\* C1: scan of a source of balanced parentheses, digits, letters and
\* whitespace returns Ok with End exactly once, as the last token.
C1_SimpleSourceScans ==
    (ScanReturned /\ IsSimpleBalanced(source)) =>
        /\ lpc = "ok"
        /\ tokens # <<>>
        /\ \A i \in 1..Len(tokens) : tokens[i] = End <=> i = Len(tokens)

\* C10: scan never returns the "no character available" error.
C10_NoGenericError == scanErr # GenericError

\* C5: when scan returns an error no token scanned before it is left in the
\* Lexer's tokens field, nor reaches the parser.
C5_AllOrNothing == lpc = "err" => (tokens = <<>> /\ ptokens = <<>>)

\* C4: on the tokens of a successful scan no read of tokens[cursor] is out
\* of bounds.
C4_NoIndexPanic == lpc = "ok" => ppc # "panic"

\* C3: on the tokens of a successful scan that leave lists open at End,
\* parse returns Ok with every open list closed there.
C3_ImplicitClose ==
    (lpc = "ok" /\ Returned /\ IsUnclosedTokens(ptokens)) =>
        (ppc = "done" /\ result = Ok(Mirror(Body(ptokens))))

====
